---- MODULE Spec2Model ----
(***************************************************************************)
(* tailr (src/tailr/src/lib.rs): the count-string parser, the boundary     *)
(* scans over a seekable file and the emission of the remaining bytes.     *)
(*                                                                         *)
(* A file is a record [ok, data]: ok = FALSE is a path File::open rejects, *)
(* data is the file's bytes (integers 0..255).  The BufReader's logical    *)
(* position is the variable cursor.  The count string is a sequence of     *)
(* one-character strings.                                                  *)
(*                                                                         *)
(* cutr (src/cutr/src/lib.rs): the range-list parser parse_pos and the     *)
(* byte and field selection of run() over the lines of one readable file.  *)
(***************************************************************************)
EXTENDS Integers, Sequences, FiniteSets, TLC

\* ------------------------------------------------------------------ bounds
MaxLen == 4
MaxStrLen == 3
MaxFiles == 3
MaxIoFiles == 2
MaxListLen == 5
MaxRows == 2

\* ------------------------------------------------------- input alphabets
\* b'\n' of the two scans
NL == 10
\* a newline, an ASCII letter, and a byte that is never valid UTF-8
ByteSet == {NL, 97, 255}
CharSet == {"+", "-", "0", "1", "2", "3", "x"}

SeqsUpTo(S, n) == UNION {[1..k -> S] : k \in 0..n}

FileSet == {[ok |-> TRUE, data |-> d] : d \in SeqsUpTo(ByteSet, MaxLen)}
             \cup {[ok |-> FALSE, data |-> <<>>]}

VARIABLES
    position_str,      \* cli.bytes / cli.lines: the raw count string
    is_bytes,          \* the string came from --bytes
    files,             \* cli.files, in argument order
    suppress_headers,  \* cli.suppress_headers
    pc,                \* where run() is
    position,          \* the signed, normalised position
    from_start,        \* the anchor chosen by parse_position
    file_idx,          \* index of the file being processed (0-based)
    cursor,            \* logical position of the BufReader of the open file
    lines_num,         \* newline counter of the running scan
    out,               \* what was written to stdout, in order
    err,               \* what was written to stderr, in order
    result,            \* value run() returned ("running" until it returns)
    error,             \* the CliError run() returned, if any
    open_files,        \* indexes of the paths whose File is open
    io_faulty,         \* the device may fail a seek or a read
    io_failed,         \* the operations the device failed, in order
    prev,              \* what an earlier run of the command line produced
    start_offsets,     \* the position each file was drained from, in order
    ranges,            \* cutr: cli.ranges.bytes / cli.ranges.fields
    cut_fields,        \* cutr: the list came from --fields (else --bytes)
    input,             \* cutr: the lines (the records, for --fields) of the file
    line_idx,          \* cutr: lines processed so far
    pos_list,          \* cutr: what parse_pos returned
    cut_pc,            \* cutr: where run() is
    cut_result,        \* cutr: how run() ended ("running" until it ends)
    cut_error,         \* cutr: the CliError run() returned, if any
    cut_out            \* cutr: what was written to stdout, in order

tail_vars == <<position_str, is_bytes, files, suppress_headers, pc, position,
               from_start, file_idx, cursor, lines_num, out, err, result,
               error, open_files, io_faulty, io_failed, prev, start_offsets>>

cut_vars == <<ranges, cut_fields, input, line_idx, pos_list, cut_pc,
              cut_result, cut_error, cut_out>>

vars == <<tail_vars, cut_vars>>

\* --------------------------------------------------------- parse_position
IsDigit(c) == c \in {"0", "1", "2", "3", "4", "5", "6", "7", "8", "9"}

DigitVal(c) ==
    CASE c = "0" -> 0 [] c = "1" -> 1 [] c = "2" -> 2 [] c = "3" -> 3
      [] c = "4" -> 4 [] c = "5" -> 5 [] c = "6" -> 6 [] c = "7" -> 7
      [] c = "8" -> 8 [] c = "9" -> 9

\* str::strip_prefix("+"): at most one leading '+' is removed
strip_prefix_plus(text) ==
    IF Len(text) > 0 /\ Head(text) = "+"
    THEN [some |-> TRUE, rest |-> Tail(text)]
    ELSE [some |-> FALSE, rest |-> text]

\* mutant of trim_start_matches_minus: the '-' is left to the integer parser
trim_none(text) == text

\* str::trim_start_matches('-'): every leading '-' is removed
RECURSIVE trim_start_matches_minus(_)
trim_start_matches_minus(text) ==
    IF Len(text) > 0 /\ Head(text) = "-"
    THEN trim_start_matches_minus(Tail(text))
    ELSE text

\* the digit loop of i64::from_str: every character must be a decimal digit
RECURSIVE parse_digits(_, _)
parse_digits(digits, acc) ==
    IF Len(digits) = 0 THEN [ok |-> TRUE, n |-> acc]
    ELSE IF ~IsDigit(Head(digits)) THEN [ok |-> FALSE, n |-> 0]
    ELSE parse_digits(Tail(digits), acc * 10 + DigitVal(Head(digits)))

\* i64::from_str (str::parse::<i64>): an optional single sign, then one or
\* more digits.  Strings of the model are far shorter than the 19 digits
\* an overflow needs.
parse_i64(text) ==
    IF Len(text) = 0 THEN [ok |-> FALSE, n |-> 0]
    ELSE IF Head(text) \in {"+", "-"}
         THEN IF Len(text) = 1 THEN [ok |-> FALSE, n |-> 0]
              ELSE LET r == parse_digits(Tail(text), 0)
                   IN  IF Head(text) = "-" THEN [ok |-> r.ok, n |-> 0 - r.n]
                       ELSE r
         ELSE parse_digits(text, 0)

parse_position(text0) ==
    LET p    == strip_prefix_plus(text0)
        text == trim_start_matches_minus(p.rest)
        r    == parse_i64(text)
    IN  [ok |-> r.ok,
         n |-> IF p.some THEN r.n ELSE 0 - r.n,
         from_start |-> p.some]

\* mutants of normalize: the decrement forgotten; the decrement also at 0
normalize_nodec(n, fs) == n
normalize_ge(n, fs) == IF n >= 0 /\ fs THEN n - 1 ELSE n

\* run(): "if position > 0 && from_start { position -= 1; }"
normalize(n, fs) == IF n > 0 /\ fs THEN n - 1 ELSE n

\* --------------------------------------------------------- the BufReader
\* BufReader::seek_relative / seek(SeekFrom::Current(n)) on a regular file:
\* a target before byte 0 is rejected and leaves the position alone; a
\* target past end-of-file is accepted.
seek_relative(cur, n) ==
    IF cur + n < 0 THEN [ok |-> FALSE, pos |-> cur]
    ELSE [ok |-> TRUE, pos |-> cur + n]

\* read_exact into a one-byte buffer: fails at or past end-of-file
read_exact(data, cur) ==
    IF cur < Len(data)
    THEN [ok |-> TRUE, byte |-> data[cur + 1], pos |-> cur + 1]
    ELSE [ok |-> FALSE, byte |-> 0, pos |-> cur]

\* mutant of read_to_end: the byte at the position is lost
read_to_end_skip(data, cur) ==
    IF cur + 1 >= Len(data) THEN <<>> ELSE SubSeq(data, cur + 2, Len(data))

\* read_to_end: the bytes from the position to end-of-file
read_to_end(data, cur) ==
    IF cur >= Len(data) THEN <<>> ELSE SubSeq(data, cur + 1, Len(data))

\* String::from_utf8_lossy on the model's bytes: ASCII is kept, the invalid
\* byte 0xFF becomes U+FFFD (EF BF BD)
RECURSIVE from_utf8_lossy(_)
from_utf8_lossy(buf) ==
    IF Len(buf) = 0 THEN <<>>
    ELSE (IF Head(buf) < 128 THEN <<Head(buf)>> ELSE <<239, 191, 189>>)
           \o from_utf8_lossy(Tail(buf))

abs(n) == IF n < 0 THEN 0 - n ELSE n

\* mutant of should_print_headers: --quiet is ignored
should_print_headers_noquiet == Len(files) > 1

\* "let should_print_headers = cli.files.len() > 1 && !cli.suppress_headers"
should_print_headers == Len(files) > 1 /\ ~suppress_headers

\* ------------------------------------------------------ boundary location
\* mutants of byte_offset: no fallback to offset 0; the sign of position lost
byte_offset_nofallback(cur) == seek_relative(cur, position).pos
byte_offset_negated(cur) ==
    LET s == seek_relative(cur, 0 - position)
    IN  IF s.ok THEN s.pos ELSE 0

\* byte mode: "if buffer.seek_relative(position).is_err()
\*               { let _ = buffer.seek(SeekFrom::Start(0)); }"
byte_offset(cur) ==
    LET s == seek_relative(cur, position)
    IN  IF s.ok THEN s.pos ELSE 0

\* loop condition of the forward scan
fwd_continue(n, max_lines) == n < max_lines

\* mutant of bwd_continue: the backward scan stops one newline early
bwd_continue_strict(n, max_lines) == n < max_lines

\* loop condition of the backward scan
bwd_continue(n, max_lines) == n <= max_lines

\* mutant of fwd_step: the newline test inverted
fwd_step_inverted(data, cur, n) ==
    LET s1 == seek_relative(cur, 1)
    IN  IF ~s1.ok THEN [cursor |-> s1.pos, lines_num |-> n, brk |-> TRUE]
        ELSE LET r == read_exact(data, s1.pos)
             IN  IF ~r.ok
                 THEN [cursor |-> r.pos, lines_num |-> n, brk |-> TRUE]
                 ELSE IF r.byte # NL
                 THEN [cursor |-> r.pos, lines_num |-> n + 1, brk |-> FALSE]
                 ELSE LET s2 == seek_relative(r.pos, -1)
                      IN  [cursor |-> s2.pos, lines_num |-> n,
                           brk |-> ~s2.ok]

\* mutant of fwd_step: the seek back after a byte that is no newline goes
\* two bytes, to where the iteration began
fwd_step_rewind(data, cur, n) ==
    LET s1 == seek_relative(cur, 1)
    IN  IF ~s1.ok THEN [cursor |-> s1.pos, lines_num |-> n, brk |-> TRUE]
        ELSE LET r == read_exact(data, s1.pos)
             IN  IF ~r.ok
                 THEN [cursor |-> r.pos, lines_num |-> n, brk |-> TRUE]
                 ELSE IF r.byte = NL
                 THEN [cursor |-> r.pos, lines_num |-> n + 1, brk |-> FALSE]
                 ELSE LET s2 == seek_relative(r.pos, -2)
                      IN  [cursor |-> s2.pos, lines_num |-> n,
                           brk |-> ~s2.ok]

\* one iteration of the forward scan (FromStart, lines)
fwd_step(data, cur, n) ==
    LET s1 == seek_relative(cur, 1)
    IN  IF ~s1.ok THEN [cursor |-> s1.pos, lines_num |-> n, brk |-> TRUE]
        ELSE LET r == read_exact(data, s1.pos)
             IN  IF ~r.ok
                 THEN [cursor |-> r.pos, lines_num |-> n, brk |-> TRUE]
                 ELSE IF r.byte = NL
                 THEN [cursor |-> r.pos, lines_num |-> n + 1, brk |-> FALSE]
                 ELSE LET s2 == seek_relative(r.pos, -1)
                      IN  [cursor |-> s2.pos, lines_num |-> n,
                           brk |-> ~s2.ok]

\* mutant of bwd_step: the cursor stays after the newline that completes
\* the count, the newline that ends the file included
bwd_step_ge(data, cur, n, max_lines) ==
    LET s1 == seek_relative(cur, -1)
    IN  IF ~s1.ok THEN [cursor |-> s1.pos, lines_num |-> n, brk |-> TRUE]
        ELSE LET r == read_exact(data, s1.pos)
             IN  IF ~r.ok
                 THEN [cursor |-> r.pos, lines_num |-> n, brk |-> TRUE]
                 ELSE LET is_newline == r.byte = NL
                          n2 == IF is_newline THEN n + 1 ELSE n
                      IN  IF ~(is_newline /\ n2 >= max_lines)
                          THEN LET s2 == seek_relative(r.pos, -1)
                               IN  [cursor |-> s2.pos, lines_num |-> n2,
                                    brk |-> ~s2.ok]
                          ELSE [cursor |-> r.pos, lines_num |-> n2,
                                brk |-> FALSE]

\* one iteration of the backward scan (FromEnd, lines)
bwd_step(data, cur, n, max_lines) ==
    LET s1 == seek_relative(cur, -1)
    IN  IF ~s1.ok THEN [cursor |-> s1.pos, lines_num |-> n, brk |-> TRUE]
        ELSE LET r == read_exact(data, s1.pos)
             IN  IF ~r.ok
                 THEN [cursor |-> r.pos, lines_num |-> n, brk |-> TRUE]
                 ELSE LET is_newline == r.byte = NL
                          n2 == IF is_newline THEN n + 1 ELSE n
                      IN  IF ~(is_newline /\ n2 > max_lines)
                          THEN LET s2 == seek_relative(r.pos, -1)
                               IN  [cursor |-> s2.pos, lines_num |-> n2,
                                    brk |-> ~s2.ok]
                          ELSE [cursor |-> r.pos, lines_num |-> n2,
                                brk |-> FALSE]

\* ------------------------------------------------- I/O errors on open files
\* which operation of a step the device fails: 0 is none; only a faulty
\* device (io_faulty) fails an operation a regular file would carry out
Faults(n) == IF io_faulty THEN 0..n ELSE {0}

\* byte mode when the device fails the seeks: k = 1 fails seek_relative and
\* the fallback seek(SeekFrom::Start(0)) succeeds; k = 2 fails both, and
\* "let _ =" drops the second error
byte_offset_io(cur, k) ==
    CASE k = 0 -> byte_offset(cur)
      [] k = 1 -> 0
      [] k = 2 -> cur

\* one iteration of the forward scan when the device fails its k-th
\* operation (1: seek_relative(1), 2: read_exact, 3: seek_relative(-1));
\* every ".is_err()" of the loop breaks, a failed operation leaves the
\* position where it was
fwd_step_io(data, cur, n, k) ==
    LET s1 == seek_relative(cur, 1)
        r  == read_exact(data, s1.pos)
        brk(c) == [cursor |-> c, lines_num |-> n, brk |-> TRUE,
                   faulted |-> TRUE]
        plain == [faulted |-> FALSE] @@ fwd_step(data, cur, n)
    IN  CASE k = 0 -> plain
          [] k = 1 -> brk(cur)
          [] k = 2 -> IF s1.ok THEN brk(s1.pos) ELSE plain
          [] k = 3 -> IF s1.ok /\ r.ok /\ r.byte # NL THEN brk(r.pos)
                      ELSE plain

\* one iteration of the backward scan when the device fails its k-th
\* operation (1: seek_relative(-1), 2: read_exact, 3: seek_relative(-1))
bwd_step_io(data, cur, n, max_lines, k) ==
    LET s1 == seek_relative(cur, -1)
        r  == read_exact(data, s1.pos)
        n2 == IF r.ok /\ r.byte = NL THEN n + 1 ELSE n
        plain == [faulted |-> FALSE] @@ bwd_step(data, cur, n, max_lines)
    IN  CASE k = 0 -> plain
          [] k = 1 -> [cursor |-> cur, lines_num |-> n, brk |-> TRUE,
                       faulted |-> TRUE]
          [] k = 2 -> IF s1.ok
                      THEN [cursor |-> s1.pos, lines_num |-> n, brk |-> TRUE,
                            faulted |-> TRUE]
                      ELSE plain
          [] k = 3 -> IF s1.ok /\ r.ok /\ ~(r.byte = NL /\ n2 > max_lines)
                      THEN [cursor |-> r.pos, lines_num |-> n2, brk |-> TRUE,
                            faulted |-> TRUE]
                      ELSE plain

\* ------------------------------------------------------------ the actions
Header(i) == [kind |-> "header", file |-> i, text |-> <<>>]

Content(i, t) == [kind |-> "content", file |-> i, text |-> t]

Separator(i) == [kind |-> "separator", file |-> i, text |-> <<>>]

OpenError(i) == [kind |-> "IoPath", file |-> i]

\* mutant of InvalidPosition: the error carries the text left after the
\* sign handling instead of the raw string
InvalidPosition_trimmed(str, b) ==
    [kind |-> "InvalidPosition",
     position |-> trim_start_matches_minus(strip_prefix_plus(str).rest),
     is_bytes |-> b]

\* CliError::InvalidPosition { position: position_str, is_bytes }
InvalidPosition(str, b) ==
    [kind |-> "InvalidPosition", position |-> str, is_bytes |-> b]

\* CliError::Io { source }: no path
IoError == [kind |-> "Io"]

\* a seek or read of path i that the device failed
IoFailure(i, at) == [file |-> i, at |-> at]

\* what the actions of tailr's run() never write: its command line, and
\* the whole of cutr
inputs == <<position_str, is_bytes, files, suppress_headers, io_faulty,
            prev, cut_vars>>

\* mutant of open_position: the position of the previous reader is kept
open_position_carry(cur) == cur

\* "BufReader::new(f)" on a File that File::open just returned: the reader
\* of every path starts at offset 0, whatever the previous reader did
open_position(cur) == 0

\* the position a file is drained from
StartOffset(i, c) == [file |-> i, offset |-> c]

\* mutant of NextFile: the loop is left after the first path
NextFile_return ==
    /\ file_idx' = file_idx + 1
    /\ pc' = "done"
    /\ result' = "Ok"

\* the for loop moves to the next path, or run() returns Ok(())
NextFile ==
    /\ file_idx' = file_idx + 1
    /\ IF file_idx + 1 < Len(files)
       THEN pc' = "open" /\ result' = result
       ELSE pc' = "done" /\ result' = "Ok"

\* mutant of close_file: the File outlives the loop body
close_file_leak(open, i) == open

\* the BufReader and its File are dropped at the end of the loop body
close_file(open, i) == open \ {i}

\* ".context(IoSnafu {})?": run() returns Err(CliError::Io) at once; the
\* open file is dropped
IoReturn(at) ==
    /\ result' = "Io"
    /\ error' = <<IoError>>
    /\ pc' = "done"
    /\ open_files' = {}
    /\ io_failed' = Append(io_failed, IoFailure(file_idx, at))

\* parse the count string and normalise it
ParseArgs ==
    /\ pc = "parse"
    /\ LET r == parse_position(position_str)
       IN  IF ~r.ok
           THEN /\ result' = "InvalidPosition"
                /\ error' = <<InvalidPosition(position_str, is_bytes)>>
                /\ pc' = "done"
                /\ UNCHANGED <<position, from_start>>
           ELSE /\ position' = normalize(r.n, r.from_start)
                /\ from_start' = r.from_start
                /\ pc' = "open"
                /\ UNCHANGED <<result, error>>
    /\ UNCHANGED <<inputs, file_idx, cursor, lines_num, out, err, open_files,
                   io_failed, start_offsets>>

\* open the next path, print its header, seek to the end for FromEnd and,
\* in byte mode, seek to the start offset
OpenFile ==
    /\ pc = "open"
    /\ LET f == files[file_idx + 1]
       IN  IF ~f.ok
           THEN /\ err' = Append(err, OpenError(file_idx))
                /\ NextFile
                /\ UNCHANGED <<cursor, lines_num, out, error, open_files,
                               io_failed>>
           ELSE LET end == IF from_start THEN open_position(cursor)
                           ELSE Len(f.data)
                IN  \E k \in Faults(3) :
                    /\ (k = 1) => ~from_start
                    /\ (k \in {2, 3}) => is_bytes
                    /\ out' = IF should_print_headers
                              THEN Append(out, Header(file_idx)) ELSE out
                    /\ IF k = 1
                       THEN /\ IoReturn("seek_end")
                            /\ UNCHANGED <<cursor, lines_num>>
                       ELSE /\ open_files' = open_files \cup {file_idx}
                            /\ io_failed' =
                                 IF k = 0 THEN io_failed
                                 ELSE Append(io_failed,
                                             IoFailure(file_idx, "seek"))
                            /\ IF is_bytes
                               THEN /\ cursor' =
                                         byte_offset_io(end,
                                             IF k = 0 THEN 0 ELSE k - 1)
                                    /\ pc' = "drain"
                                    /\ UNCHANGED lines_num
                               ELSE /\ cursor' = end
                                    /\ lines_num' = 0
                                    /\ pc' = IF from_start THEN "scan_fwd"
                                             ELSE "scan_bwd"
                            /\ UNCHANGED <<result, error>>
                    /\ UNCHANGED <<err, file_idx>>
    /\ UNCHANGED <<inputs, position, from_start, start_offsets>>

\* the while loop of the FromStart line scan: one test of its condition
\* and, when it holds, one run of its body
ScanForward ==
    /\ pc = "scan_fwd"
    /\ IF fwd_continue(lines_num, abs(position))
       THEN \E k \in Faults(3) :
            LET s == fwd_step_io(files[file_idx + 1].data, cursor,
                                 lines_num, k)
            IN  /\ (k # 0) => s.faulted
                /\ cursor' = s.cursor
                /\ lines_num' = s.lines_num
                /\ pc' = IF s.brk THEN "drain" ELSE "scan_fwd"
                /\ io_failed' = IF s.faulted
                                THEN Append(io_failed,
                                            IoFailure(file_idx, "scan"))
                                ELSE io_failed
       ELSE /\ pc' = "drain"
            /\ UNCHANGED <<cursor, lines_num, io_failed>>
    /\ UNCHANGED <<inputs, position, from_start, file_idx, out, err, result,
                   error, open_files, start_offsets>>

\* the while loop of the FromEnd line scan
ScanBackward ==
    /\ pc = "scan_bwd"
    /\ IF bwd_continue(lines_num, abs(position))
       THEN \E k \in Faults(3) :
            LET s == bwd_step_io(files[file_idx + 1].data, cursor,
                                 lines_num, abs(position), k)
            IN  /\ (k # 0) => s.faulted
                /\ cursor' = s.cursor
                /\ lines_num' = s.lines_num
                /\ pc' = IF s.brk THEN "drain" ELSE "scan_bwd"
                /\ io_failed' = IF s.faulted
                                THEN Append(io_failed,
                                            IoFailure(file_idx, "scan"))
                                ELSE io_failed
       ELSE /\ pc' = "drain"
            /\ UNCHANGED <<cursor, lines_num, io_failed>>
    /\ UNCHANGED <<inputs, position, from_start, file_idx, out, err, result,
                   error, open_files, start_offsets>>

\* read the rest of the file, print it, print the separator; the file is
\* dropped at the end of the loop body
Drain ==
    /\ pc = "drain"
    /\ \E k \in Faults(1) :
       IF k = 1
       THEN /\ IoReturn("read_to_end")
            /\ UNCHANGED <<out, cursor, file_idx, start_offsets>>
       ELSE LET data == files[file_idx + 1].data
                buf  == read_to_end(data, cursor)
                o1   == Append(out, Content(file_idx, from_utf8_lossy(buf)))
            IN  /\ out' = IF should_print_headers
                               /\ file_idx # Len(files) - 1
                          THEN Append(o1, Separator(file_idx)) ELSE o1
                /\ cursor' = IF cursor >= Len(data) THEN cursor
                             ELSE Len(data)
                /\ start_offsets' = Append(start_offsets,
                                            StartOffset(file_idx, cursor))
                /\ open_files' = close_file(open_files, file_idx)
                /\ NextFile
                /\ UNCHANGED <<error, io_failed>>
    /\ UNCHANGED <<inputs, position, from_start, lines_num, err>>

\* the same command line is run once more with a '-' put before the count
\* string; what the first run wrote and returned is kept in prev
Reinvoke ==
    /\ pc = "done"
    /\ prev = <<>>
    /\ prev' = <<[position_str |-> position_str, out |-> out, err |-> err,
                  result |-> result, error |-> error]>>
    /\ position_str' = <<"-">> \o position_str
    /\ pc' = "parse"
    /\ position' = 0
    /\ from_start' = FALSE
    /\ file_idx' = 0
    /\ cursor' = 0
    /\ lines_num' = 0
    /\ out' = <<>>
    /\ err' = <<>>
    /\ result' = "running"
    /\ error' = <<>>
    /\ open_files' = {}
    /\ io_failed' = <<>>
    /\ start_offsets' = <<>>
    /\ UNCHANGED <<is_bytes, files, suppress_headers, io_faulty, cut_vars>>

\* ------------------------------------------------------ the specification
\* the state in which run() is entered
RunStart ==
    /\ pc = "parse"
    /\ position = 0
    /\ from_start = FALSE
    /\ file_idx = 0
    /\ cursor = 0
    /\ lines_num = 0
    /\ out = <<>>
    /\ err = <<>>
    /\ result = "running"
    /\ error = <<>>
    /\ open_files = {}
    /\ io_failed = <<>>
    /\ prev = <<>>
    /\ start_offsets = <<>>

\* cutr is not running
CutIdle ==
    /\ ranges = <<>>
    /\ cut_fields = FALSE
    /\ input = <<>>
    /\ line_idx = 0
    /\ pos_list = <<>>
    /\ cut_pc = "idle"
    /\ cut_result = "running"
    /\ cut_error = <<>>
    /\ cut_out = <<>>

\* regular files on a device that does not fail
InitWith(FileLists, Strs, Quiets) ==
    /\ position_str \in Strs
    /\ is_bytes \in BOOLEAN
    /\ files \in FileLists
    /\ suppress_headers \in Quiets
    /\ io_faulty = FALSE
    /\ RunStart
    /\ CutIdle

\* one path on the command line
Init == InitWith({<<f>> : f \in FileSet}, SeqsUpTo(CharSet, MaxStrLen),
                 {FALSE})

Next == ParseArgs \/ OpenFile \/ ScanForward \/ ScanBackward \/ Drain

Spec == Init /\ [][Next]_vars

\* several paths, with and without --quiet
MultiFileSet == {[ok |-> FALSE, data |-> <<>>],
                 [ok |-> TRUE, data |-> <<>>],
                 [ok |-> TRUE, data |-> <<97, NL, 255>>]}
MultiStrs == {<<"1">>, <<"-", "3">>, <<"+", "2">>, <<"x">>}
FileLists(n) == UNION {[1..k -> MultiFileSet] : k \in 1..n}

InitMulti == InitWith(FileLists(MaxFiles), MultiStrs, BOOLEAN)

SpecMulti == InitMulti /\ [][Next]_vars

\* a device that may fail any seek or read of an open file
InitIo ==
    /\ position_str \in MultiStrs
    /\ is_bytes \in BOOLEAN
    /\ files \in FileLists(MaxIoFiles)
    /\ suppress_headers \in BOOLEAN
    /\ io_faulty = TRUE
    /\ RunStart
    /\ CutIdle

SpecIo == InitIo /\ [][Next]_vars

\* two runs of one command line, the second with '-' before the count
NextTwice == Next \/ Reinvoke

SpecTwice == Init /\ [][NextTwice]_vars

\* ==================================================================== cutr
\* default_value_t = '\t' of --delimiter
TAB == 9
CutCharSet == {",", "-", "+", " ", "0", "1", "2", "x"}

\* str::split(sep): the pieces between the separators, empty pieces kept;
\* a text without separator is one piece
RECURSIVE split(_, _)
split(text, sep) ==
    IF \A j \in DOMAIN text : text[j] # sep THEN <<text>>
    ELSE LET i == CHOOSE j \in DOMAIN text :
                    text[j] = sep /\ \A q \in 1..(j - 1) : text[q] # sep
         IN  <<SubSeq(text, 1, i - 1)>>
               \o split(SubSeq(text, i + 1, Len(text)), sep)

\* str::trim: white space removed at both ends
RECURSIVE trim_start(_)
trim_start(text) ==
    IF Len(text) > 0 /\ Head(text) = " " THEN trim_start(Tail(text))
    ELSE text

RECURSIVE trim_end(_)
trim_end(text) ==
    IF Len(text) > 0 /\ text[Len(text)] = " "
    THEN trim_end(SubSeq(text, 1, Len(text) - 1))
    ELSE text

trim(text) == trim_end(trim_start(text))

\* str::starts_with("+")
starts_with_plus(text) == Len(text) > 0 /\ Head(text) = "+"

\* usize::from_str (str::parse::<usize>): an optional '+', then one or
\* more digits; no '-', no white space.  Lists of the model are far
\* shorter than the 20 digits an overflow needs.
parse_usize(text) ==
    IF Len(text) = 0 THEN [ok |-> FALSE, n |-> 0]
    ELSE IF Head(text) = "+"
         THEN IF Len(text) = 1 THEN [ok |-> FALSE, n |-> 0]
              ELSE parse_digits(Tail(text), 0)
         ELSE parse_digits(text, 0)

\* CliError::InvalidPosition { text } of cutr
cutr_InvalidPosition(text) == [kind |-> "InvalidPosition", text |-> text]

\* CliError::PositionParse { source, text }
PositionParse(text) == [kind |-> "PositionParse", text |-> text]

\* CliError::InvalidStartEnd { start, end }
InvalidStartEnd(start, end) ==
    [kind |-> "InvalidStartEnd", start |-> start, end |-> end]

cut_Err(e) == [ok |-> FALSE, error |-> <<e>>]

\* mutant of is_zero: the test "n == 0" forgotten
is_zero_never(n) == FALSE

\* "if n == 0"
is_zero(n) == n = 0

\* the inner loop of parse_pos, "for s in range.split('-')": the numbers
\* of one list element, or the first error
RECURSIVE parse_nums(_, _, _)
parse_nums(parts, nums, text) ==
    IF Len(parts) = 0 THEN [ok |-> TRUE, nums |-> nums]
    ELSE LET part == Head(parts)
             r == parse_usize(part)
         IN  IF starts_with_plus(trim(part))
             THEN cut_Err(cutr_InvalidPosition(text))
             ELSE IF ~r.ok THEN cut_Err(PositionParse(text))
             ELSE IF is_zero(r.n) THEN cut_Err(cutr_InvalidPosition(text))
             ELSE parse_nums(Tail(parts), Append(nums, r.n), text)

\* mutant of to_range: the start is not made 0-based
to_range_closed(nums) ==
    IF Len(nums) = 1 THEN [start |-> nums[1], end |-> nums[1]]
    ELSE [start |-> nums[1], end |-> nums[2]]

\* the Range pushed for one or two numbers: n gives (n-1)..n, a and b give
\* (a-1)..b
to_range(nums) ==
    IF Len(nums) = 1 THEN [start |-> nums[1] - 1, end |-> nums[1]]
    ELSE [start |-> nums[1] - 1, end |-> nums[2]]

\* the body of the outer loop of parse_pos for one list element
parse_range(range, text) ==
    LET r == parse_nums(split(range, "-"), <<>>, text)
    IN  IF ~r.ok THEN r
        ELSE IF Len(r.nums) > 2 THEN cut_Err(cutr_InvalidPosition(text))
        ELSE IF Len(r.nums) = 2 /\ r.nums[1] >= r.nums[2]
             THEN cut_Err(InvalidStartEnd(r.nums[1], r.nums[2]))
        ELSE [ok |-> TRUE, range |-> to_range(r.nums)]

\* the outer loop of parse_pos, "for range in ranges.split(',')"
RECURSIVE parse_ranges(_, _, _)
parse_ranges(list, positions, text) ==
    IF Len(list) = 0 THEN [ok |-> TRUE, positions |-> positions]
    ELSE LET r == parse_range(Head(list), text)
         IN  IF ~r.ok THEN r
             ELSE parse_ranges(Tail(list), Append(positions, r.range), text)

parse_pos(text) == parse_ranges(split(text, ","), <<>>, text)

\* "&slice[pos]" with a Range: the index panics when the end exceeds the
\* length of the slice (or the start exceeds the end)
index_range(slice, pos) ==
    IF pos.start > pos.end \/ pos.end > Len(slice)
    THEN [ok |-> FALSE, v |-> <<>>]
    ELSE [ok |-> TRUE, v |-> SubSeq(slice, pos.start + 1, pos.end)]

\* [&str]::join(sep)
RECURSIVE join(_, _)
join(fields, sep) ==
    IF Len(fields) = 0 THEN <<>>
    ELSE IF Len(fields) = 1 THEN fields[1]
    ELSE fields[1] \o <<sep>> \o join(Tail(fields), sep)

\* "for pos in pos_list" in byte mode: what is printed for one line, up to
\* the index that panics
RECURSIVE select_bytes(_, _, _)
select_bytes(line, list, printed) ==
    IF Len(list) = 0 THEN [ok |-> TRUE, text |-> printed]
    ELSE LET v == index_range(line, Head(list))
         IN  IF ~v.ok THEN [ok |-> FALSE, text |-> printed]
             ELSE select_bytes(line, Tail(list),
                               printed \o from_utf8_lossy(v.v))

\* "for pos in pos_list" in field mode
RECURSIVE select_fields(_, _, _)
select_fields(fields, list, printed) ==
    IF Len(list) = 0 THEN [ok |-> TRUE, text |-> printed]
    ELSE LET v == index_range(fields, Head(list))
         IN  IF ~v.ok THEN [ok |-> FALSE, text |-> printed]
             ELSE select_fields(fields, Tail(list),
                                printed \o join(v.v, TAB))

\* BufRead::lines yields an error for a line that is not valid UTF-8
line_is_utf8(line) == \A j \in DOMAIN line : line[j] < 128

\* the csv reader (flexible is off) rejects a record whose number of
\* fields differs from the first record's
record_is_equal_length(record) == Len(record) = Len(input[1])

\* what print! wrote for one line; println!() ends it
Printed(text, newline) == [text |-> text, newline |-> newline]

\* run() returns Err(e); main prints it and exits with 1
CutReturn(e) ==
    /\ cut_result' = e.kind
    /\ cut_error' = <<e>>
    /\ cut_pc' = "done"

\* "let pos_list = parse_pos(byte_ranges)?"
ParsePos ==
    /\ cut_pc = "parse"
    /\ LET r == parse_pos(ranges)
       IN  IF r.ok
           THEN /\ pos_list' = r.positions
                /\ cut_pc' = "select"
                /\ UNCHANGED <<cut_result, cut_error>>
           ELSE /\ CutReturn(r.error[1])
                /\ UNCHANGED pos_list
    /\ UNCHANGED <<ranges, cut_fields, input, line_idx, cut_out, tail_vars>>

\* one iteration of "for line in buffer.lines()" (of "for result in
\* csv_reader.records()" in field mode), or the end of the loop and
\* Ok(()); a panic ends the program where it is, with what print! wrote
SelectLine ==
    /\ cut_pc = "select"
    /\ IF line_idx = Len(input)
       THEN /\ cut_pc' = "done"
            /\ cut_result' = "Ok"
            /\ UNCHANGED <<line_idx, cut_out, cut_error>>
       ELSE LET row == input[line_idx + 1]
                s == IF cut_fields THEN select_fields(row, pos_list, <<>>)
                     ELSE select_bytes(row, pos_list, <<>>)
            IN  IF cut_fields /\ ~record_is_equal_length(row)
                THEN /\ CutReturn([kind |-> "Csv"])
                     /\ UNCHANGED <<line_idx, cut_out>>
                ELSE IF ~cut_fields /\ ~line_is_utf8(row)
                THEN /\ CutReturn([kind |-> "IoPath"])
                     /\ UNCHANGED <<line_idx, cut_out>>
                ELSE IF ~s.ok
                THEN /\ cut_pc' = "done"
                     /\ cut_result' = "panic"
                     /\ cut_out' = Append(cut_out, Printed(s.text, FALSE))
                     /\ UNCHANGED <<line_idx, cut_error>>
                ELSE /\ cut_out' = Append(cut_out, Printed(s.text, TRUE))
                     /\ line_idx' = line_idx + 1
                     /\ UNCHANGED <<cut_pc, cut_result, cut_error>>
    /\ UNCHANGED <<ranges, cut_fields, input, pos_list, tail_vars>>

\* the state in which cutr's run() has opened its file
CutStart ==
    /\ line_idx = 0
    /\ pos_list = <<>>
    /\ cut_pc = "parse"
    /\ cut_result = "running"
    /\ cut_error = <<>>
    /\ cut_out = <<>>

\* tailr is not running
TailIdle ==
    /\ position_str = <<>>
    /\ is_bytes = FALSE
    /\ files = <<>>
    /\ suppress_headers = FALSE
    /\ pc = "idle"
    /\ position = 0
    /\ from_start = FALSE
    /\ file_idx = 0
    /\ cursor = 0
    /\ lines_num = 0
    /\ out = <<>>
    /\ err = <<>>
    /\ result = "running"
    /\ error = <<>>
    /\ open_files = {}
    /\ io_faulty = FALSE
    /\ io_failed = <<>>
    /\ prev = <<>>
    /\ start_offsets = <<>>

NextCut == ParsePos \/ SelectLine

\* every list string, --bytes, one line
InitParsePos ==
    /\ ranges \in SeqsUpTo(CutCharSet, MaxListLen)
    /\ cut_fields = FALSE
    /\ input = << <<97, 98>> >>
    /\ CutStart
    /\ TailIdle

SpecParsePos == InitParsePos /\ [][NextCut]_vars

\* some lists, --bytes and --fields, files of up to MaxRows lines
CutLists == {<<"1">>, <<"3">>, <<"1", "-", "2">>, <<"2", ",", "1">>,
             <<"2", "-", "3", ",", "1">>, <<"1", "-", "1">>, <<"0">>}
LineSet == {<<>>, <<97>>, <<97, 98, 99>>, <<97, 255>>}
RecordSet == {<< <<97>> >>, << <<97>>, <<>> >>,
              << <<97>>, <<98>>, <<99, 100>> >>}
RowLists(Rows, n) == UNION {[1..k -> Rows] : k \in 0..n}

InitCut ==
    /\ ranges \in CutLists
    /\ cut_fields \in BOOLEAN
    /\ input \in RowLists(IF cut_fields THEN RecordSet ELSE LineSet, MaxRows)
    /\ CutStart
    /\ TailIdle

SpecCut == InitCut /\ [][NextCut]_vars

\* ------------------------------------------------- vocabulary of the claims
Min(a, b) == IF a < b THEN a ELSE b
Max(a, b) == IF a > b THEN a ELSE b

FileIdx == 0..(Len(files) - 1)
DataOf(i) == files[i + 1].data
\* the file being processed
CurData == DataOf(file_idx)

\* the content of file i has been written
HasContent(i) ==
    \E j \in DOMAIN out : out[j].kind = "content" /\ out[j].file = i
TextOf(i) ==
    out[CHOOSE j \in DOMAIN out :
            out[j].kind = "content" /\ out[j].file = i].text

NumNewlines(s) == Cardinality({q \in DOMAIN s : s[q] = NL})
\* newline-terminated lines plus a final unterminated line
NumLines(s) ==
    NumNewlines(s) + (IF Len(s) > 0 /\ s[Len(s)] # NL THEN 1 ELSE 0)
EndsWithNewline(s) == Len(s) > 0 /\ s[Len(s)] = NL

\* offset immediately after the k-th newline of s (0 for k = 0)
AfterNthNewline(s, k) ==
    IF k = 0 THEN 0
    ELSE CHOOSE p \in DOMAIN s :
            s[p] = NL /\ Cardinality({q \in 1..p : s[q] = NL}) = k

\* the last k bytes of s, and what from_utf8_lossy shows of them
LastBytes(s, k) == [j \in 1..k |-> s[Len(s) - k + j]]
Shown(s) == from_utf8_lossy(s)

LineFromEnd  == pc # "parse" /\ result # "InvalidPosition"
                  /\ ~is_bytes /\ ~from_start
LineFromStart == ~is_bytes /\ from_start
ByteFromEnd  == pc # "parse" /\ result # "InvalidPosition"
                  /\ is_bytes /\ ~from_start
ByteFromStart == is_bytes /\ from_start

\* decimal numeral of K, and z zeros
DigitChars == <<"0", "1", "2", "3", "4", "5", "6", "7", "8", "9">>
RECURSIVE ToDigits(_)
ToDigits(K) ==
    IF K < 10 THEN <<DigitChars[K + 1]>>
    ELSE ToDigits(K \div 10) \o <<DigitChars[(K % 10) + 1]>>
Zeros(z) == [j \in 1..z |-> "0"]
RECURSIVE Pow10(_)
Pow10(k) == IF k = 0 THEN 1 ELSE 10 * Pow10(k - 1)

\* ------------------------------------------------------------------ claims

\* C1: in line mode with FromEnd(count), the number of lines written for a
\* file equals min(count, number of lines of the file), whether or not the
\* file ends in a newline.  (Fails: a file that does not end in a newline
\* gets count + 1 lines.)
C1_LineCountFromEnd ==
    \A i \in FileIdx :
        (LineFromEnd /\ HasContent(i))
            => NumLines(TextOf(i)) = Min(abs(position), NumLines(DataOf(i)))

\* C2: in line mode with FromStart(index), index >= 1, on a file with at
\* least index newlines, the forward scan leaves the cursor immediately
\* after the index-th newline.  (Fails: the first byte of every line is
\* skipped unread, so the newline of an empty line is not counted.)
C2_ForwardScanOffset ==
    (pc = "drain" /\ LineFromStart /\ position >= 1
        /\ NumNewlines(CurData) >= position)
        => cursor = AfterNthNewline(CurData, position)

\* C3: with FromEnd(0) nothing is written for any file, in byte mode and
\* in line mode.  (Fails in line mode on a file that does not end in a
\* newline: its last line is written.)
C3_ZeroFromEndEmitsNothing ==
    \A i \in FileIdx :
        (pc # "parse" /\ result # "InvalidPosition" /\ ~from_start
            /\ position = 0 /\ HasContent(i))
            => TextOf(i) = <<>>

\* C4: "+0" and "+1" normalise to FromStart(0), and with FromStart(0) the
\* cursor is at 0 before draining and the whole file is written, in byte
\* mode and in line mode.
C4_FromStartZeroWholeFile ==
    /\ (pc # "parse" /\ position_str \in {<<"+", "0">>, <<"+", "1">>})
            => (result # "InvalidPosition" /\ from_start /\ position = 0)
    /\ (pc = "drain" /\ from_start /\ position = 0) => cursor = 0
    /\ \A i \in FileIdx :
        (from_start /\ position = 0 /\ HasContent(i))
            => TextOf(i) = Shown(DataOf(i))

C4_Witness ==
    /\ pc = "done" /\ position_str = <<"+", "1">> /\ ~is_bytes
    /\ HasContent(0) /\ NumLines(DataOf(0)) >= 2
    /\ TextOf(0) = Shown(DataOf(0))

\* C5: in line mode with FromStart(index) and index >= the number of lines
\* of the file, the scan ends at or past end-of-file and nothing is written.
C5_FromStartPastLastLine ==
    /\ (pc = "drain" /\ LineFromStart /\ position >= NumLines(CurData))
            => cursor >= Len(CurData)
    /\ \A i \in FileIdx :
        (LineFromStart /\ position >= NumLines(DataOf(i)) /\ HasContent(i))
            => TextOf(i) = <<>>

C5_Witness ==
    /\ pc = "done" /\ LineFromStart /\ HasContent(0)
    /\ NumLines(DataOf(0)) = 2 /\ position = 2 /\ ~EndsWithNewline(DataOf(0))
    /\ TextOf(0) = <<>>

\* C6: in byte mode with FromEnd(count) the start offset is
\* file_size - min(count, file_size) and the bytes from there are written.
C6_BytesFromEnd ==
    /\ (pc = "drain" /\ ByteFromEnd)
            => cursor = Len(CurData) - Min(abs(position), Len(CurData))
    /\ \A i \in FileIdx :
        (ByteFromEnd /\ HasContent(i))
            => TextOf(i) = Shown(LastBytes(DataOf(i),
                                 Min(abs(position), Len(DataOf(i)))))

C6_Witness ==
    /\ pc = "done" /\ ByteFromEnd /\ HasContent(0)
    /\ position = -2 /\ Len(DataOf(0)) = 4
    /\ TextOf(0) = Shown(<<DataOf(0)[3], DataOf(0)[4]>>)

\* C7 as stated: in byte mode with FromStart(index) the cursor is left at
\* min(index, file_size) before draining.  (Fails for index > file_size:
\* the seek past end-of-file succeeds and the cursor is at index.)
C7_BytesFromStartCursor ==
    (pc = "drain" /\ ByteFromStart)
        => cursor = Min(position, Len(CurData))

\* C7 amended: in byte mode with FromStart(index) the cursor is left at
\* index before draining, past end-of-file when index > file_size, and the
\* bytes written are those from offset min(index, file_size) on.
C7_BytesFromStartAmended ==
    /\ (pc = "drain" /\ ByteFromStart) => cursor = position
    /\ \A i \in FileIdx :
        (ByteFromStart /\ HasContent(i))
            => TextOf(i) =
                 Shown(LastBytes(DataOf(i),
                         Len(DataOf(i)) - Min(position, Len(DataOf(i)))))

C7_Witness ==
    /\ pc = "done" /\ ByteFromStart /\ HasContent(0)
    /\ Len(DataOf(0)) = 1 /\ position = 2 /\ cursor = 2
    /\ TextOf(0) = <<>>

\* C8: in line mode with FromEnd(count), a file of at most count lines is
\* scanned back to offset 0 and written whole.
C8_FromEndFewLines ==
    /\ (pc = "drain" /\ LineFromEnd /\ NumLines(CurData) <= abs(position))
            => cursor = 0
    /\ \A i \in FileIdx :
        (LineFromEnd /\ NumLines(DataOf(i)) <= abs(position)
            /\ HasContent(i))
            => TextOf(i) = Shown(DataOf(i))

C8_Witness ==
    /\ pc = "done" /\ LineFromEnd /\ HasContent(0)
    /\ NumLines(DataOf(0)) = 2 /\ position = -2 /\ Len(DataOf(0)) = 4
    /\ TextOf(0) = Shown(DataOf(0))

\* C9: in line mode with FromEnd(count), on a file that ends in a newline
\* and has L lines, the start offset is the first byte of the last
\* min(count, L) lines (file_size for count = 0): the final newline does
\* not start a line of its own.
C9_TrailingNewlineNotCounted ==
    /\ (pc = "drain" /\ LineFromEnd /\ EndsWithNewline(CurData))
            => cursor = AfterNthNewline(CurData,
                            NumLines(CurData)
                              - Min(abs(position), NumLines(CurData)))
    /\ \A i \in FileIdx :
        (LineFromEnd /\ EndsWithNewline(DataOf(i)) /\ HasContent(i))
            => NumLines(TextOf(i))
                 = Min(abs(position), NumLines(DataOf(i)))

C9_Witness ==
    /\ pc = "done" /\ LineFromEnd /\ HasContent(0)
    /\ EndsWithNewline(DataOf(0)) /\ NumLines(DataOf(0)) = 2
    /\ position = -1 /\ NumLines(TextOf(0)) = 1
    /\ Len(TextOf(0)) >= 2

\* C10: a count string made of "+" and a decimal numeral (leading zeros
\* allowed) of value K parses and normalises to FromStart with index
\* max(K - 1, 0).  Stated on the state that follows the parse: the string
\* is "+", some zeros and the numeral of some K, the parse succeeded, and
\* position is max(K - 1, 0).
C10_PlusKIndex ==
    (/\ (pc = "open" /\ file_idx = 0) \/ result = "InvalidPosition"
     /\ Len(position_str) >= 2 /\ Head(position_str) = "+"
     /\ \A j \in 2..Len(position_str) :
            \E d \in DOMAIN DigitChars : position_str[j] = DigitChars[d])
        => \E K \in 0..(Pow10(Len(position_str) - 1) - 1) :
             \E z \in 0..(Len(position_str) - 2) :
                /\ position_str = <<"+">> \o Zeros(z) \o ToDigits(K)
                /\ result # "InvalidPosition"
                /\ from_start
                /\ position = Max(K - 1, 0)

C10_Witness ==
    /\ pc = "open" /\ file_idx = 0 /\ position_str = <<"+", "0", "3">>
    /\ from_start /\ position = 2 /\ result = "running"

\* s is one or more decimal digits
IsNumeral(s) ==
    /\ Len(s) >= 1
    /\ \A j \in DOMAIN s : \E d \in DOMAIN DigitChars : s[j] = DigitChars[d]
\* s is the decimal numeral of K, possibly after leading zeros
IsNumeralOf(s, K) ==
    \E z \in 0..(Len(s) - 1) : s = Zeros(z) \o ToDigits(K)
\* the state that follows the parse of the count string
AfterParse == (pc = "open" /\ file_idx = 0) \/ result = "InvalidPosition"

\* C11: a count string N of decimal digits and the string "-N" both parse
\* to FromEnd with count N, nothing added or subtracted (the string is the
\* numeral of the count), and a second run of the same command line with
\* "-N" in place of N writes the same output and errors and returns the
\* same result as the first.
C11_BareAndMinusSame ==
    /\ (AfterParse /\ Len(position_str) >= 1
          /\ (IsNumeral(position_str)
                \/ (Head(position_str) = "-"
                      /\ IsNumeral(Tail(position_str)))))
            => (/\ result # "InvalidPosition"
                /\ ~from_start
                /\ position <= 0
                /\ IsNumeralOf(IF Head(position_str) = "-"
                               THEN Tail(position_str) ELSE position_str,
                               0 - position))
    /\ (pc = "done" /\ prev # <<>> /\ IsNumeral(prev[1].position_str)
          /\ position_str = <<"-">> \o prev[1].position_str)
            => (/\ out = prev[1].out
                /\ err = prev[1].err
                /\ result = prev[1].result
                /\ error = prev[1].error)

C11_Witness ==
    /\ pc = "done" /\ prev # <<>> /\ is_bytes
    /\ prev[1].position_str = <<"2">> /\ position_str = <<"-", "2">>
    /\ DataOf(0) = <<97, NL, 97, NL>>
    /\ out = prev[1].out /\ HasContent(0) /\ TextOf(0) = <<97, NL>>

\* the grammar: at most one sign, then one or more decimal digits
InGrammar(s) ==
    \/ IsNumeral(s)
    \/ (Len(s) >= 2 /\ Head(s) \in {"+", "-"} /\ IsNumeral(Tail(s)))

\* C12: parse_position accepts exactly the strings of the grammar: at most
\* one sign followed by one or more digits; every other string is a parse
\* failure.  (Fails: after the '+' is stripped every leading '-' is
\* trimmed and the integer parser takes one more sign, so "+-3", "--3",
\* "++3" and "-+3" are accepted.)
C12_GrammarExact ==
    AfterParse => ((result # "InvalidPosition") <=> InGrammar(position_str))

\* strings no reading of the grammar accepts: empty, not ending in a digit,
\* or holding a character that is neither a sign nor a digit
Malformed(s) ==
    \/ Len(s) = 0
    \/ ~IsNumeral(<<s[Len(s)]>>)
    \/ \E j \in DOMAIN s : s[j] \notin {"+", "-"} /\ ~IsNumeral(<<s[j]>>)

\* C13: when the count string fails to parse, run() returns
\* InvalidPosition carrying the unit kind and the raw string unchanged,
\* and it has opened no file and written no header, content or error line.
C13_InvalidPositionFirst ==
    /\ (pc # "parse" /\ Malformed(position_str))
            => result = "InvalidPosition"
    /\ result = "InvalidPosition"
            => (/\ pc = "done"
                /\ error = <<[kind |-> "InvalidPosition",
                              position |-> position_str,
                              is_bytes |-> is_bytes]>>
                /\ file_idx = 0
                /\ open_files = {}
                /\ out = <<>>
                /\ err = <<>>)

C13_Witness ==
    /\ result = "InvalidPosition" /\ position_str = <<"+", "-", "x">>
    /\ is_bytes /\ files[1].ok /\ Len(files[1].data) > 0
    /\ error[1].position = <<"+", "-", "x">> /\ error[1].is_bytes

\* the events written for path i
OutOf(i) == {j \in DOMAIN out : out[j].file = i}
ErrOf(i) == {j \in DOMAIN err : err[j].file = i}
ParsedOk == pc # "parse" /\ result # "InvalidPosition"

\* C14: a path that fails to open gets exactly one error line (IoPath: the
\* path and the cause) on stderr and no header and no content; the paths
\* after it are still processed (every path that opens gets its content),
\* and run() returns Ok.
C14_OpenFailureSkipsFile ==
    /\ \A i \in FileIdx :
        (ParsedOk /\ i < file_idx /\ ~files[i + 1].ok)
            => (/\ Cardinality(ErrOf(i)) = 1
                /\ \A j \in ErrOf(i) : err[j] = [kind |-> "IoPath", file |-> i]
                /\ OutOf(i) = {})
    /\ \A i \in FileIdx : files[i + 1].ok => ErrOf(i) = {}
    /\ (ParsedOk /\ pc = "done")
            => (/\ result = "Ok"
                /\ file_idx = Len(files)
                /\ \A i \in FileIdx : files[i + 1].ok => HasContent(i))

C14_Witness ==
    /\ pc = "done" /\ result = "Ok" /\ Len(files) = 2
    /\ ~files[1].ok /\ files[2].ok /\ ~suppress_headers
    /\ err = <<[kind |-> "IoPath", file |-> 0]>>
    /\ HasContent(1) /\ Len(TextOf(1)) > 0 /\ OutOf(0) = {}

\* C15: a failure of the seek to end-of-file or of the final read on an
\* opened file is not fatal: it is reported for that file, every later
\* path is still processed and run() returns Ok; only a parse failure
\* makes run() return an error.  (Fails: both operations end in "?", so
\* run() returns Err(CliError::Io) at once.)
C15_IoFailureNotFatal ==
    /\ result \in {"running", "Ok", "InvalidPosition"}
    /\ (ParsedOk /\ pc = "done") => file_idx = Len(files)
    /\ \A j \in DOMAIN io_failed :
        io_failed[j].at \in {"seek_end", "read_to_end"}
            => ErrOf(io_failed[j].file) # {}

\* C16: an I/O error of a seek or of the one-byte read in the middle of a
\* boundary scan (or of the byte-mode seek) fails the file with an I/O
\* error tagged with its path; nothing is emitted from where the cursor
\* happens to be.  (Fails: every ".is_err()" only breaks the loop, and the
\* rest of the file from the cursor is written.)
C16_ScanFailureReported ==
    \A j \in DOMAIN io_failed :
        io_failed[j].at \in {"scan", "seek"}
            => (/\ ~HasContent(io_failed[j].file)
                /\ (io_failed[j].file < file_idx
                      => \E e \in ErrOf(io_failed[j].file) :
                            err[e].kind = "IoPath"))

\* more than one path was given and --quiet is not set
HeadersShown == Len(files) > 1 /\ ~suppress_headers
\* path i is open and its content is still to be written
InProgress(i) == pc \in {"scan_fwd", "scan_bwd", "drain"} /\ file_idx = i

\* C17: the header of a path is written immediately before its content if
\* and only if more than one path was given and --quiet is not set: with
\* headers shown every content is preceded by the header of its path, and
\* a header is followed by the content of its path; with one path or with
\* --quiet no header is written at all.
C17_HeaderIffManyAndNotQuiet ==
    \A j \in DOMAIN out :
        /\ out[j].kind = "content"
            => (HeadersShown
                  <=> (j > 1 /\ out[j - 1].kind = "header"
                         /\ out[j - 1].file = out[j].file))
        /\ out[j].kind = "header"
            => (/\ HeadersShown
                /\ IF j < Len(out)
                   THEN out[j + 1].kind = "content"
                          /\ out[j + 1].file = out[j].file
                   ELSE InProgress(out[j].file))

C17_Witness ==
    /\ pc = "done" /\ Len(files) = 2 /\ ~suppress_headers
    /\ files[1].ok /\ files[2].ok
    /\ Len(out) = 5
    /\ out[1].kind = "header" /\ out[2].kind = "content"
    /\ out[4].kind = "header" /\ out[5].kind = "content"
    /\ out[4].file = 1 /\ out[5].file = 1

\* C18: with headers shown there is exactly one separator between the
\* outputs of consecutive files and none after the output of the last file
\* emitted, also when some paths fail to open; without headers there is no
\* separator.  (Fails: the separator is written after every file that is
\* not the last argument, so it trails the output when the paths after it
\* fail to open.)
C18_SeparatorsBetweenOnly ==
    pc = "done" =>
        \A j \in DOMAIN out :
            /\ out[j].kind = "separator"
                => (/\ HeadersShown
                    /\ j > 1 /\ out[j - 1].kind = "content"
                    /\ j < Len(out) /\ out[j + 1].kind = "header")
            /\ (out[j].kind = "header" /\ j > 1)
                => out[j - 1].kind = "separator"

\* the file indexes of a stream of events never decrease
InOrder(events) ==
    \A j, k \in DOMAIN events : j < k => events[j].file <= events[k].file

\* C19: the paths are processed in argument order, one at a time: what is
\* written belongs to the current path and never to a later one, nothing
\* of a path is pending when the next is opened, every event a step adds
\* is of the path current at that step, file_idx only moves to the next
\* path, and at most one file (the current one) is open.
C19_OneFileAtATime ==
    /\ [](/\ Cardinality(open_files) <= 1
          /\ open_files \subseteq {file_idx}
          /\ (open_files # {} <=> InProgress(file_idx))
          /\ InOrder(out) /\ InOrder(err)
          /\ \A j \in DOMAIN out : out[j].file <= file_idx
          /\ \A j \in DOMAIN err : err[j].file <= file_idx
          /\ pc = "open" => (\A j \in DOMAIN out : out[j].file < file_idx)
          /\ pc = "open" => (\A j \in DOMAIN err : err[j].file < file_idx)
          /\ (ParsedOk /\ pc = "open")
                => \A i \in 0..(file_idx - 1) :
                      IF files[i + 1].ok THEN HasContent(i)
                      ELSE ErrOf(i) # {})
    /\ [][/\ file_idx' \in {file_idx, file_idx + 1}
          /\ \A j \in (Len(out) + 1)..Len(out') : out'[j].file = file_idx
          /\ \A j \in (Len(err) + 1)..Len(err') : err'[j].file = file_idx
          /\ SubSeq(out', 1, Len(out)) = out
          /\ SubSeq(err', 1, Len(err)) = err]_vars

C19_Witness ==
    /\ pc = "drain" /\ file_idx = 2 /\ Len(files) = 3
    /\ files[1].ok /\ ~files[2].ok /\ files[3].ok
    /\ open_files = {2} /\ HasContent(0) /\ ErrOf(1) # {}
    /\ ~HasContent(2)

\* the bytes of d from offset c to the end
Range(d, c) == [j \in 1..(Len(d) - Min(c, Len(d))) |-> d[Min(c, Len(d)) + j]]
AllAscii(d) == \A j \in DOMAIN d : d[j] < 128
\* the step that drains the current file
Drains == pc = "drain" /\ pc' # "drain"
\* the text of the content event of path i after the step
WrittenText(i, t) ==
    \E j \in DOMAIN out' :
        /\ j > Len(out)
        /\ out'[j].kind = "content" /\ out'[j].file = i /\ out'[j].text = t

\* C20 as stated: the content written for a file is exactly the bytes from
\* the start offset to end-of-file.  (Fails on a byte that is not valid
\* UTF-8: the bytes pass through String::from_utf8_lossy, which writes
\* U+FFFD, three bytes, in its place.)
C20_ExactBytes ==
    [][Drains => WrittenText(file_idx, Range(CurData, cursor))]_vars

\* C20 amended: the content written for a file is the from_utf8_lossy
\* rendering of exactly the bytes from the start offset to end-of-file, in
\* file order: it is those bytes unchanged when they are all ASCII, and
\* in general every ASCII byte is kept and every invalid byte is replaced
\* by U+FFFD.
C20_LossyRange ==
    [][Drains =>
          /\ WrittenText(file_idx, Shown(Range(CurData, cursor)))
          /\ AllAscii(Range(CurData, cursor))
                => WrittenText(file_idx, Range(CurData, cursor))
          /\ Cardinality({j \in (Len(out) + 1)..Len(out') :
                              out'[j].kind = "content"}) = 1]_vars

C20_Witness ==
    /\ pc = "done" /\ is_bytes /\ ~from_start /\ position = -3
    /\ DataOf(0) = <<97, 97, 255, NL>>
    /\ HasContent(0) /\ TextOf(0) = <<97, 239, 191, 189, NL>>

\* the position file i was drained from
OffsetOf(i) ==
    start_offsets[CHOOSE j \in DOMAIN start_offsets :
                      start_offsets[j].file = i].offset
Drained(i) == \E j \in DOMAIN start_offsets : start_offsets[j].file = i

\* C21: boundary resolution is idempotent and carries nothing from one
\* file to the next: two arguments that name the same unmodified file are
\* drained from the same start offset and get the same content, wherever
\* they stand in the argument list and whatever was processed between them.
C21_SameFileSameResult ==
    \A i, j \in FileIdx :
        (files[i + 1] = files[j + 1] /\ Drained(i) /\ Drained(j))
            => (/\ OffsetOf(i) = OffsetOf(j)
                /\ HasContent(i) /\ HasContent(j)
                /\ TextOf(i) = TextOf(j))

C21_Witness ==
    /\ pc = "done" /\ Len(files) = 3 /\ is_bytes /\ from_start
    /\ files[1] = files[3] /\ files[2] # files[1] /\ files[2].ok
    /\ Len(DataOf(0)) = 3
    /\ OffsetOf(0) = 1 /\ OffsetOf(2) = 1
    /\ TextOf(0) = TextOf(2) /\ Len(TextOf(2)) > 0

\* path i is a zero-byte file
EmptyFile(i) == files[i + 1].ok /\ DataOf(i) = <<>>

\* C22: for a zero-byte file and FromEnd(N) with N > 0, in byte mode and
\* in line mode, no content byte and no error line is written for the
\* file and run() does not fail: the file is drained from offset 0, the
\* paths after it are processed as usual and run() returns Ok.
C22_EmptyFileFromEnd ==
    \A i \in FileIdx :
        (ParsedOk /\ ~from_start /\ position < 0 /\ EmptyFile(i))
            => (/\ HasContent(i) => TextOf(i) = <<>>
                /\ Drained(i) => OffsetOf(i) = 0
                /\ ErrOf(i) = {}
                /\ result \in {"running", "Ok"}
                /\ error = <<>>
                /\ i < file_idx => HasContent(i)
                /\ pc = "done"
                     => (/\ result = "Ok"
                         /\ \A j \in FileIdx :
                              (j > i /\ files[j + 1].ok) => HasContent(j)))

C22_Witness ==
    /\ pc = "done" /\ result = "Ok" /\ Len(files) = 2 /\ ~is_bytes
    /\ position = -3 /\ ~from_start
    /\ EmptyFile(0) /\ TextOf(0) = <<>> /\ err = <<>>
    /\ files[2].ok /\ HasContent(1) /\ Len(TextOf(1)) > 0

\* ---------------------------------------------- vocabulary of cutr's claims
\* the positions of the separator c in s, and the k-th of them (0 before
\* the first, Len(s) + 1 after the last)
SepsOf(s, c) == {j \in DOMAIN s : s[j] = c}
KthSep(s, c, k) ==
    IF k = 0 THEN 0
    ELSE IF k > Cardinality(SepsOf(s, c)) THEN Len(s) + 1
    ELSE CHOOSE j \in SepsOf(s, c) :
            Cardinality({q \in SepsOf(s, c) : q <= j}) = k
NumPieces(s, c) == Cardinality(SepsOf(s, c)) + 1
\* the k-th piece of s between separators c
Piece(s, c, k) ==
    SubSeq(s, KthSep(s, c, k - 1) + 1, KthSep(s, c, k) - 1)
\* the list elements of the list string
NumElements == NumPieces(ranges, ",")
Element(k) == Piece(ranges, ",", k)

\* the value of a decimal numeral: digit times power of ten, summed
DigitOf(c) == (CHOOSE d \in DOMAIN DigitChars : DigitChars[d] = c) - 1
RECURSIVE ValueFrom(_, _)
ValueFrom(s, j) ==
    IF j > Len(s) THEN 0
    ELSE DigitOf(s[j]) * Pow10(Len(s) - j) + ValueFrom(s, j + 1)
Value(s) == ValueFrom(s, 1)

\* a single number n >= 1; a range a-b with 1 <= a < b
GoodSingle(e) == IsNumeral(e) /\ Value(e) >= 1
TwoNumbers(e) ==
    /\ NumPieces(e, "-") = 2
    /\ IsNumeral(Piece(e, "-", 1)) /\ Value(Piece(e, "-", 1)) >= 1
    /\ IsNumeral(Piece(e, "-", 2)) /\ Value(Piece(e, "-", 2)) >= 1
GoodRange(e) ==
    TwoNumbers(e) /\ Value(Piece(e, "-", 1)) < Value(Piece(e, "-", 2))
GoodElement(e) == GoodSingle(e) \/ GoodRange(e)
\* the half-open 0-based range a good element stands for
RangeFor(e) ==
    IF GoodSingle(e) THEN [start |-> Value(e) - 1, end |-> Value(e)]
    ELSE [start |-> Value(Piece(e, "-", 1)) - 1,
          end |-> Value(Piece(e, "-", 2))]

ParseFailed ==
    cut_result \in {"InvalidPosition", "PositionParse", "InvalidStartEnd"}
AfterParsePos == cut_pc \in {"select", "done"}

\* C23: parse_pos maps a valid comma-separated list (every element a
\* number n >= 1 or a range a-b with 1 <= a < b, leading zeros allowed) to
\* one half-open 0-based range per element, in the order of the list:
\* n becomes (n-1)..n and a-b becomes (a-1)..b; nothing is sorted or merged.
C23_ValidListToRanges ==
    (AfterParsePos /\ \A k \in 1..NumElements : GoodElement(Element(k)))
        => (/\ ~ParseFailed
            /\ Len(pos_list) = NumElements
            /\ \A k \in 1..NumElements : pos_list[k] = RangeFor(Element(k)))

C23_Witness ==
    /\ cut_pc = "select"
    /\ ranges = <<"2", ",", "1", "-", "2">>
    /\ pos_list = <<[start |-> 1, end |-> 2], [start |-> 0, end |-> 2]>>

\* the first list element that is not good
FirstBad ==
    CHOOSE k \in 1..NumElements :
        /\ ~GoodElement(Element(k))
        /\ \A q \in 1..(k - 1) : GoodElement(Element(q))

\* C24: parse_pos returns an error and no range list whenever some list
\* element is not a number n >= 1 or a range a-b with 1 <= a < b: an
\* empty element, a 0, a leading '+', a part that is not a number, more
\* than two parts.  When the first such element is a range a-b of two
\* numbers >= 1 with a >= b the error is InvalidStartEnd carrying a and b;
\* otherwise it is an "illegal list value" error carrying the whole list
\* string.  Nothing is selected or written after the error.
C24_InvalidListIsError ==
    (AfterParsePos /\ \E k \in 1..NumElements : ~GoodElement(Element(k)))
        => (/\ ParseFailed
            /\ cut_pc = "done"
            /\ pos_list = <<>>
            /\ cut_out = <<>>
            /\ IF TwoNumbers(Element(FirstBad))
               THEN cut_error =
                      <<[kind |-> "InvalidStartEnd",
                         start |-> Value(Piece(Element(FirstBad), "-", 1)),
                         end |-> Value(Piece(Element(FirstBad), "-", 2))]>>
               ELSE /\ cut_result \in {"InvalidPosition", "PositionParse"}
                    /\ cut_error[1].text = ranges)

C24_Witness ==
    /\ cut_pc = "done" /\ cut_result = "InvalidStartEnd"
    /\ ranges = <<"1", ",", "2", "-", "1">>
    /\ cut_error = <<[kind |-> "InvalidStartEnd", start |-> 2, end |-> 1]>>
    /\ pos_list = <<>>

\* C28: for every input line and every range list parse_pos accepts, the
\* byte and the field selection complete without aborting the program,
\* also when the end of a range exceeds the byte length of the line or the
\* number of fields of the record: every line that is read gets its line
\* of output.  (Fails: "line.as_bytes()[pos]" and "fields[pos]" index with
\* the whole range, and the index panics when the end of the range exceeds
\* the length.)
C28_SelectionNeverAborts ==
    /\ cut_result # "panic"
    /\ (cut_pc = "done" /\ cut_result = "Ok")
            => (/\ Len(cut_out) = Len(input)
                /\ \A j \in DOMAIN cut_out : cut_out[j].newline)

\* C26: throughout the backward scan of line mode with FromEnd(count) the
\* cursor stays within [0, file_size] and the newline counter never
\* exceeds count + 1; when the scan has ended the cursor is 0 or the
\* position immediately after a newline byte, and the file is drained from
\* there.
C26_BackwardScanInvariant ==
    /\ pc = "scan_bwd"
            => (/\ LineFromEnd
                /\ cursor \in 0..Len(CurData)
                /\ lines_num \in 0..(abs(position) + 1))
    /\ (pc = "drain" /\ LineFromEnd)
            => (/\ lines_num \in 0..(abs(position) + 1)
                /\ cursor = 0
                     \/ (cursor \in 1..Len(CurData) /\ CurData[cursor] = NL))
    /\ \A i \in FileIdx :
        (LineFromEnd /\ Drained(i))
            => \/ OffsetOf(i) = 0
               \/ (OffsetOf(i) \in 1..Len(DataOf(i))
                     /\ DataOf(i)[OffsetOf(i)] = NL)

C26_Witness ==
    /\ pc = "done" /\ LineFromEnd /\ position = -1
    /\ DataOf(0) = <<97, NL, 97, NL>>
    /\ lines_num = 2 /\ OffsetOf(0) = 2 /\ TextOf(0) = <<97, NL>>

\* C27: in byte mode the cursor is put back to offset 0 only for a
\* FromEnd spec whose count exceeds the file size, and with
\* FromStart(index) nothing is drained from offset 0 unless index = 0,
\* also when the device rejects the relative seek to index.  (Fails: a
\* rejected seek_relative(index) is followed by seek(SeekFrom::Start(0)),
\* or leaves the reader where File::open put it, and the whole file is
\* written.)
C27_ByteFallbackOnlyFromEnd ==
    /\ (pc = "drain" /\ ByteFromEnd /\ io_failed = <<>> /\ cursor = 0)
            => abs(position) >= Len(CurData)
    /\ (pc = "drain" /\ ByteFromStart /\ cursor = 0) => position = 0
    /\ \A i \in FileIdx :
        (ByteFromStart /\ Drained(i) /\ OffsetOf(i) = 0) => position = 0

\* counts from 0 to past the number of lines any file of the model has,
\* from either end
ScanCounts == 0..(MaxLen + 2)
ScanStrs == {ToDigits(n) : n \in ScanCounts}
              \cup {<<"+">> \o ToDigits(n) : n \in ScanCounts}

\* one path, every file, the counts of ScanCounts
InitScan == InitWith({<<f>> : f \in FileSet}, ScanStrs, {FALSE})

\* run() is sequential code that nothing suspends: it takes its next step
\* as long as it has one
SpecScan == InitScan /\ [][Next]_vars /\ WF_vars(Next)

\* C25: both line scans terminate.  An iteration of the forward scan
\* strictly advances the cursor or leaves the loop; an iteration of the
\* backward scan strictly moves the cursor toward 0, or leaves the loop at
\* once, or has just counted the newline that ends the loop at its next
\* test; so every scan, and the processing of every file that opened,
\* reaches the drain step.
C25_ScansTerminate ==
    /\ [][(pc = "scan_fwd" /\ pc' = "scan_fwd") => cursor' > cursor]_vars
    /\ [][(pc = "scan_bwd" /\ pc' = "scan_bwd")
            => (cursor' < cursor \/ lines_num' > abs(position))]_vars
    /\ [][(pc = "scan_bwd" /\ lines_num > abs(position))
            => pc' = "drain"]_vars
    /\ (pc \in {"scan_fwd", "scan_bwd"}) ~> (pc = "drain")
    /\ (pc = "open" /\ files[file_idx + 1].ok) ~> (pc = "drain")

C25_Witness ==
    /\ pc = "scan_bwd" /\ lines_num = abs(position) + 1
    /\ position = -2 /\ cursor \in 1..(Len(CurData) - 1)

====
